---------------------------- MODULE Spec2Model ----------------------------
(***************************************************************************)
(* Fleet polling engine of the Xandeum pNode dashboard                     *)
(* (src/src/components/Dashboard.tsx).                                     *)
(*                                                                         *)
(* The specifications share the operators that model the code:            *)
(*   SpecPoll  one fetchNodeData(ip) activation after another, with its    *)
(*             two rpcCall activations modelled step by step (fetch,       *)
(*             abort timer, body read, envelope unwrapping);               *)
(*   Spec      the XandeumDashboard component: mount, interval ticks,      *)
(*             manual refresh, the per-address poller promises of every    *)
(*             round and the fan-in that publishes the node list;          *)
(*   SpecFault the round started at mount, with poller promises that may   *)
(*             reject;                                                     *)
(*   SpecLuxe  the XandeumLuxeDashboard component (src/unnamed/part_000);  *)
(*   SpecView  the render of XandeumDashboard (filter and fleet figures)   *)
(*             over every node list, search text and status filter.        *)
(*                                                                         *)
(* Values of nullable TypeScript fields: NULL stands for null, UNDEFINED   *)
(* for undefined (records, so that they compare with records); a nullable  *)
(* string field holds "null" / "undefined"; lastSeen holds "null" or       *)
(* "now" (the value of Date.now() at the time the snapshot was built).     *)
(***************************************************************************)
EXTENDS Integers, Sequences, FiniteSets, TLC

VARIABLES
    calls,          \* SpecPoll: method -> the rpcCall activation of the current poll
    poll,           \* SpecPoll: the promise returned by fetchNodeData(pollIp)
    pollIp,         \* SpecPoll: the address being polled
    polls,          \* SpecPoll: number of fetchNodeData activations so far
    prev,           \* SpecPoll: outcomes and status of the previous activation
    nodes,          \* useState<PNode[]>([])
    arrays,         \* Spec: round id -> the array that round handed to setNodes
    loading,        \* useState(true)
    isRefreshing,   \* useState(false)
    lastUpdate,     \* useState<Date | null>(null)
    interval,       \* the setInterval handle of the effect
    rounds,         \* round id -> the fetchData activation (its fetchPromises)
    started,        \* number of fetchData activations so far
    searchQuery,    \* useState('')
    statusFilter,   \* useState<'all' | 'online' | 'offline' | 'degraded'>('all')
    view            \* what the last render of XandeumDashboard computed

pollVars  == <<calls, poll, pollIp, polls, prev>>
fleetVars == <<nodes, arrays, loading, isRefreshing, lastUpdate, interval, rounds,
               started>>
viewVars  == <<searchQuery, statusFilter, view>>
vars      == <<calls, poll, pollIp, polls, prev,
               nodes, arrays, loading, isRefreshing, lastUpdate, interval, rounds,
               started,
               searchQuery, statusFilter, view>>

(***************************************************************************)
(* Bounds of the model.                                                    *)
(***************************************************************************)
NumNodes  == 2      \* configured addresses kept (the source lists ten)
MaxPolls  == 2      \* fetchNodeData activations in SpecPoll
MaxRounds == 2      \* fetchData activations in Spec

(***************************************************************************)
(* Program constants.                                                      *)
(***************************************************************************)
AllKnownIps ==
    << "173.212.220.65", "62.171.169.176", "161.97.151.101", "173.249.11.155",
       "62.171.163.135", "173.212.237.139", "173.212.255.210", "173.212.237.99",
       "173.249.7.61", "144.91.109.142" >>

KNOWN_PNODE_IPS == SubSeq(AllKnownIps, 1, NumNodes)

REQUEST_TIMEOUT == 8000
REFRESH_INTERVAL == 30000

CPU_DEGRADED == 90
MEMORY_DEGRADED == 95

NULL      == [null |-> TRUE]
UNDEFINED == [undefined |-> TRUE]

Methods == {"getStats", "getPods"}

(***************************************************************************)
(* What a node can answer.  The result of getStats is a NodeStats object   *)
(* (or JSON null), the result of getPods a PodsResponse (or JSON null).    *)
(***************************************************************************)
StatsValues ==
    [cpu_percent : {CPU_DEGRADED, CPU_DEGRADED + 1},
     memory_percent : {MEMORY_DEGRADED, MEMORY_DEGRADED + 1},
     storage_used : {128}]

PodsValues ==
    { [total_count |-> 0, pods |-> << >>],
      [total_count |-> 1, pods |-> << [pubkey |-> "abc123"] >>] }

ResultValues(method) ==
    (IF method = "getStats" THEN StatsValues ELSE PodsValues) \cup {NULL}

\* The JSON-RPC envelopes a 2xx response can carry (RpcResponse<T>), and a
\* body that is not JSON at all.
RemoteErrors == { [code |-> -32000, message |-> "remote error"] }

OkBodies(method) ==
    [kind : {"json"},
     error : RemoteErrors \cup {UNDEFINED},
     result : ResultValues(method) \cup {UNDEFINED}]
    \cup { [kind |-> "malformed"] }

\* The bodies a non-2xx response can carry: the proxy's {error: message},
\* a JSON object without an error field, or no JSON.
ErrBodies ==
    { [kind |-> "json", error |-> "Connection failed"],
      [kind |-> "json", error |-> "undefined"],
      [kind |-> "malformed"] }

(***************************************************************************)
(* rpcCall.  An activation is a record                                     *)
(*   phase    "fetch"     awaiting fetch() (line 91)                       *)
(*            "body"      awaiting response.json() (line 106 or 112)       *)
(*            "fulfilled" returned data.result (line 122)                  *)
(*            "rejected"  threw (lines 107, 115, 119, 125)                 *)
(*   ok       response.ok, once the response is there                      *)
(*   timer    the setTimeout of line 88: "armed", "cleared" or "fired"     *)
(*   elapsed  REQUEST_TIMEOUT ms have passed since the call started        *)
(*   data     what response.json() gave (lines 106, 112), once read       *)
(*   sent     the number of fetch() requests the activation has issued    *)
(*   value    the value returned, reason the message of the Error thrown   *)
(***************************************************************************)
clearTimeout(timer) == IF timer = "armed" THEN "cleared" ELSE timer

\* Lines 87-101: the controller and timer are created and fetch() is issued.
rpcCallStart ==
    [phase |-> "fetch", ok |-> FALSE, timer |-> "armed", elapsed |-> FALSE,
     data |-> UNDEFINED, sent |-> 1, value |-> UNDEFINED,
     reason |-> "undefined"]

\* rpcCallThrow issuing the request a second time before giving up.
rpcCallThrow_Retry(c, message) ==
    IF c.sent < 2
    THEN [c EXCEPT !.phase = "fetch", !.timer = "armed", !.sent = c.sent + 1]
    ELSE [c EXCEPT !.phase = "rejected", !.timer = clearTimeout(c.timer),
                   !.reason = message]

\* Lines 123-126: the catch clause clears the timer and rethrows.
rpcCallThrow(c, message) ==
    [c EXCEPT !.phase = "rejected", !.timer = clearTimeout(c.timer),
              !.reason = message]

\* rpcCallResponse without the clearTimeout of line 103.
rpcCallResponse_NoClear(c, ok) == [c EXCEPT !.phase = "body", !.ok = ok]

\* Line 103: the response (status line and headers) is there.
rpcCallResponse(c, ok) ==
    [c EXCEPT !.phase = "body", !.ok = ok, !.timer = clearTimeout(c.timer)]

\* Lines 106 and 112: await response.json() delivers the body.
rpcCallRead(c, body) == [c EXCEPT !.data = body]

\* rpcCallUnwrap looking at the result before the error field.
rpcCallUnwrap_ResultFirst(c, body) ==
    IF body.kind = "malformed"
    THEN rpcCallThrow(c, "SyntaxError")
    ELSE IF ~c.ok
    THEN rpcCallThrow(c, IF body.error # "undefined" THEN body.error
                         ELSE "HTTP error! status: 500")
    ELSE IF body.result # UNDEFINED
    THEN [c EXCEPT !.phase = "fulfilled", !.value = body.result]
    ELSE IF body.error # UNDEFINED
    THEN rpcCallThrow(c, body.error.message)
    ELSE rpcCallThrow(c, "No result in response")

\* Lines 105-122: the body has been read; unwrap it.
rpcCallUnwrap(c, body) ==
    IF body.kind = "malformed"
    THEN rpcCallThrow(c, "SyntaxError")
    ELSE IF ~c.ok
    THEN rpcCallThrow(c, IF body.error # "undefined" THEN body.error
                         ELSE "HTTP error! status: 500")
    ELSE IF body.error # UNDEFINED
    THEN rpcCallThrow(c, body.error.message)
    ELSE IF body.result = UNDEFINED
    THEN rpcCallThrow(c, "No result in response")
    ELSE [c EXCEPT !.phase = "fulfilled", !.value = body.result]

\* Line 88: the timer callback. It runs only if the timer is still armed;
\* controller.abort() then makes the pending fetch() reject.
rpcCallTimeout(c) ==
    IF c.timer = "armed"
    THEN rpcCallThrow([c EXCEPT !.timer = "fired", !.elapsed = TRUE], "AbortError")
    ELSE [c EXCEPT !.elapsed = TRUE]

Settled(c) == c.phase \in {"fulfilled", "rejected"}


(***************************************************************************)
(* fetchNodeData (lines 129-171).                                          *)
(***************************************************************************)
\* The promise returned by a settled rpcCall activation.
Settlement(c) ==
    IF c.phase = "fulfilled"
    THEN [status |-> "fulfilled", value |-> c.value]
    ELSE [status |-> "rejected", reason |-> c.reason]

\* Promise.allSettled never rejects: once every input promise has settled it
\* fulfils with their settlements, in input order.
PromiseAllSettled(promises) ==
    [status |-> "fulfilled", value |-> [i \in DOMAIN promises |-> promises[i]]]

\* Line 155: podsData?.pods?.[0]?.pubkey ?? null
FirstPubkey(podsData) ==
    IF podsData = NULL THEN "null"
    ELSE IF Len(podsData.pods) = 0 THEN "null"
    ELSE podsData.pods[1].pubkey

\* ClassifyStatus with the thresholds included (>= for >).
ClassifyStatus_Inclusive(stats) ==
    IF stats # NULL
       /\ (stats.cpu_percent >= CPU_DEGRADED \/ stats.memory_percent >= MEMORY_DEGRADED)
    THEN "degraded"
    ELSE "online"

\* Lines 141-146.
ClassifyStatus(stats) ==
    IF stats # NULL
       /\ (stats.cpu_percent > CPU_DEGRADED \/ stats.memory_percent > MEMORY_DEGRADED)
    THEN "degraded"
    ELSE "online"

\* NodeSnapshot keeping the data only when both calls succeeded.
NodeSnapshot_AllOrNothing(ip, statsResult, podsResult) ==
    LET both     == statsResult.status = "fulfilled" /\ podsResult.status = "fulfilled"
        stats    == IF both THEN statsResult.value ELSE NULL
        podsData == IF both THEN podsResult.value ELSE NULL
    IN  [id |-> ip, ip |-> ip, status |-> ClassifyStatus(stats), stats |-> stats,
         version |-> "v0.8 Reinheim", gossipPort |-> 8001,
         pubkey |-> FirstPubkey(podsData), lastSeen |-> "now",
         error |-> "undefined"]

\* Lines 136-157: the snapshot built from the two settlements.
NodeSnapshot(ip, statsResult, podsResult) ==
    LET stats    == IF statsResult.status = "fulfilled" THEN statsResult.value ELSE NULL
        podsData == IF podsResult.status = "fulfilled" THEN podsResult.value ELSE NULL
    IN  [id |-> ip, ip |-> ip, status |-> ClassifyStatus(stats), stats |-> stats,
         version |-> "v0.8 Reinheim", gossipPort |-> 8001,
         pubkey |-> FirstPubkey(podsData), lastSeen |-> "now",
         error |-> "undefined"]

\* Lines 159-169: the snapshot of the catch clause.
OfflineSnapshot(ip, version, message) ==
    [id |-> ip, ip |-> ip, status |-> "offline", stats |-> NULL,
     version |-> version, gossipPort |-> 8001, pubkey |-> "null",
     lastSeen |-> "null", error |-> message]

\* fetchNodeData awaiting its two calls with Promise.all and no try/catch: a
\* failed call rejects the poller, and a call that answered late counts as
\* offline.
fetchNodeData_Unguarded(ip, statsCall, podsCall) ==
    IF statsCall.phase = "rejected" /\ podsCall.phase = "rejected"
    THEN [status |-> "rejected", reason |-> statsCall.reason]
    ELSE [status |-> "fulfilled",
          value |-> IF statsCall.elapsed \/ podsCall.elapsed
                    THEN OfflineSnapshot(ip, "unknown", "Connection failed")
                    ELSE NodeSnapshot(ip, Settlement(statsCall), Settlement(podsCall))]

\* The promise fetchNodeData(ip) settles to, given its two settled rpcCalls.
fetchNodeData(ip, statsCall, podsCall) ==
    LET awaited == PromiseAllSettled(<<Settlement(statsCall), Settlement(podsCall)>>)
    IN  IF awaited.status = "rejected"
        THEN [status |-> "fulfilled",
              value |-> OfflineSnapshot(ip, "unknown", awaited.reason)]
        ELSE [status |-> "fulfilled",
              value |-> NodeSnapshot(ip, awaited.value[1], awaited.value[2])]

PENDING == [status |-> "pending"]

(***************************************************************************)
(* The render of XandeumDashboard: the filter of lines 429-436 and the     *)
(* fleet figures of lines 438-455.                                         *)
(*                                                                         *)
(* String.prototype.toLowerCase and includes work on the characters of a   *)
(* string.  Chars gives, for every string the model searches in or for,    *)
(* the sequence of its characters.                                         *)
(***************************************************************************)
Chars(s) ==
    CASE s = "" -> << >>
      [] s = "abc" -> << "a", "b", "c" >>
      [] s = "ABC" -> << "A", "B", "C" >>
      [] s = "17" -> << "1", "7" >>
      [] s = "abc123" -> << "a", "b", "c", "1", "2", "3" >>
      [] s = "AbC9" -> << "A", "b", "C", "9" >>
      [] s = "173.212.220.65" -> << "1", "7", "3", ".", "2", "1", "2", ".", "2", "2", "0", ".", "6", "5" >>
      [] s = "62.171.169.176" -> << "6", "2", ".", "1", "7", "1", ".", "1", "6", "9", ".", "1", "7", "6" >>
      [] s = "161.97.151.101" -> << "1", "6", "1", ".", "9", "7", ".", "1", "5", "1", ".", "1", "0", "1" >>
      [] s = "173.249.11.155" -> << "1", "7", "3", ".", "2", "4", "9", ".", "1", "1", ".", "1", "5", "5" >>
      [] s = "62.171.163.135" -> << "6", "2", ".", "1", "7", "1", ".", "1", "6", "3", ".", "1", "3", "5" >>
      [] s = "173.212.237.139" -> << "1", "7", "3", ".", "2", "1", "2", ".", "2", "3", "7", ".", "1", "3", "9" >>
      [] s = "173.212.255.210" -> << "1", "7", "3", ".", "2", "1", "2", ".", "2", "5", "5", ".", "2", "1", "0" >>
      [] s = "173.212.237.99" -> << "1", "7", "3", ".", "2", "1", "2", ".", "2", "3", "7", ".", "9", "9" >>
      [] s = "173.249.7.61" -> << "1", "7", "3", ".", "2", "4", "9", ".", "7", ".", "6", "1" >>
      [] s = "144.91.109.142" -> << "1", "4", "4", ".", "9", "1", ".", "1", "0", "9", ".", "1", "4", "2" >>

UpperCase == << "A", "B", "C", "D", "E", "F", "G", "H", "I", "J", "K", "L", "M",
               "N", "O", "P", "Q", "R", "S", "T", "U", "V", "W", "X", "Y", "Z" >>
LowerCase == << "a", "b", "c", "d", "e", "f", "g", "h", "i", "j", "k", "l", "m",
               "n", "o", "p", "q", "r", "s", "t", "u", "v", "w", "x", "y", "z" >>

\* The characters of the strings of Chars.
Characters ==
    { UpperCase[k] : k \in DOMAIN UpperCase }
        \cup { LowerCase[k] : k \in DOMAIN LowerCase }
        \cup { "0", "1", "2", "3", "4", "5", "6", "7", "8", "9", "." }

\* The lower-case form of one character: a letter of UpperCase becomes the
\* letter at the same place of LowerCase, any other character stays.
LowerCaseOf ==
    [ch \in Characters |->
        IF \E k \in DOMAIN UpperCase : UpperCase[k] = ch
        THEN LowerCase[CHOOSE k \in DOMAIN UpperCase : UpperCase[k] = ch]
        ELSE ch]

\* String.prototype.toLowerCase
toLowerCase(text) == [i \in DOMAIN text |-> LowerCaseOf[text[i]]]

\* String.prototype.includes: search occurs in text at some position.
includes(text, search) ==
    \E start \in 0..(Len(text) - Len(search)) :
        SubSeq(text, start + 1, start + Len(search)) = search

\* matchesSearch comparing the raw strings.
matchesSearch_RawStrings(node, query) ==
    \/ includes(Chars(node.ip), Chars(query))
    \/ /\ node.pubkey # "null"
       /\ includes(Chars(node.pubkey), Chars(query))

\* Lines 430-432.  node.pubkey?.toLowerCase() is undefined for a null pubkey,
\* and undefined makes the disjunction falsy.
matchesSearch(node, query) ==
    \/ includes(toLowerCase(Chars(node.ip)), toLowerCase(Chars(query)))
    \/ /\ node.pubkey # "null"
       /\ includes(toLowerCase(Chars(node.pubkey)), toLowerCase(Chars(query)))

\* matchesStatus without the 'all' case.
matchesStatus_NoAll(node, status) == node.status = status

\* Lines 433-434.
matchesStatus(node, status) == status = "all" \/ node.status = status

\* filteredNodes keeping a node that satisfies either predicate.
filteredNodes_Either(list, query, status) ==
    SelectSeq(list, LAMBDA node : matchesSearch(node, query)
                                    \/ matchesStatus(node, status))

\* Lines 429-436: nodes.filter(...) builds a new array and leaves nodes alone.
filteredNodes(list, query, status) ==
    SelectSeq(list, LAMBDA node : matchesSearch(node, query)
                                    /\ matchesStatus(node, status))

\* Line 438.
totalNodes(list) == Len(list)

\* onlineNodes counting every node that is not offline.
onlineNodes_NotOffline(list) ==
    Len(SelectSeq(list, LAMBDA n : n.status # "offline"))

\* Line 439.
onlineNodes(list) == Len(SelectSeq(list, LAMBDA n : n.status = "online"))

\* Line 440.
offlineNodes(list) == Len(SelectSeq(list, LAMBDA n : n.status = "offline"))

\* Line 441.
nodesWithStats(list) == SelectSeq(list, LAMBDA n : n.stats # NULL)

\* Lines 444-447: reduce((acc, n) => acc + (n.stats?.cpu_percent ?? 0), 0)
RECURSIVE sumCpu(_)
sumCpu(list) ==
    IF list = << >> THEN 0
    ELSE sumCpu(SubSeq(list, 1, Len(list) - 1))
         + (IF list[Len(list)].stats = NULL THEN 0
            ELSE list[Len(list)].stats.cpu_percent)

\* avgCpu dividing without looking at the divisor.
avgCpu_Unguarded(list) ==
    [num |-> sumCpu(nodesWithStats(list)), den |-> Len(nodesWithStats(list))]

\* avgCpu dividing by the number of all nodes.
avgCpu_OverAllNodes(list) ==
    IF Len(list) > 0
    THEN [num |-> sumCpu(nodesWithStats(list)), den |-> Len(list)]
    ELSE [num |-> 0, den |-> 1]

\* Lines 442-448.  The quotient is kept as the fraction num/den; the number
\* 0 of the else branch is 0/1.
avgCpu(list) ==
    IF Len(nodesWithStats(list)) > 0
    THEN [num |-> sumCpu(nodesWithStats(list)),
          den |-> Len(nodesWithStats(list))]
    ELSE [num |-> 0, den |-> 1]

\* Lines 449-452: reduce((acc, n) => acc + (n.stats?.storage_used ?? 0), 0)
RECURSIVE totalStorage(_)
totalStorage(list) ==
    IF list = << >> THEN 0
    ELSE totalStorage(SubSeq(list, 1, Len(list) - 1))
         + (IF list[Len(list)].stats = NULL THEN 0
            ELSE list[Len(list)].stats.storage_used)

\* Number.prototype.toFixed(0) of num/den >= 0: the nearest integer, the
\* larger one of two equally near, written in decimal digits.
toFixed0(num, den) == ToString((2 * num + den) \div (2 * den))

\* Line 453.
healthPercent(list) ==
    IF totalNodes(list) > 0
    THEN toFixed0(onlineNodes(list) * 100, totalNodes(list))
    ELSE "0"

\* Lines 454-455.
showCorsWarning(list) ==
    offlineNodes(list) = totalNodes(list) /\ totalNodes(list) > 0

\* One render: everything lines 429-455 compute from the state.
Render(list, query, status) ==
    [filteredNodes   |-> filteredNodes(list, query, status),
     totalNodes      |-> totalNodes(list),
     onlineNodes     |-> onlineNodes(list),
     offlineNodes    |-> offlineNodes(list),
     avgCpu          |-> avgCpu(list),
     totalStorage    |-> totalStorage(list),
     healthPercent   |-> healthPercent(list),
     showCorsWarning |-> showCorsWarning(list)]

(***************************************************************************)
(* The arrays handed to setNodes.  results.map (line 382) builds a new     *)
(* array in every fetchData activation; an array built by an earlier       *)
(* activation may still be held by whoever rendered it.                    *)
(***************************************************************************)
NoArray == [allocated |-> FALSE]

\* setNodes writing the new entries into the one array all rounds share.
setNodes_InPlace(held, r, list) ==
    [q \in DOMAIN held |->
        IF q = r \/ held[q].allocated
        THEN [allocated |-> TRUE, items |-> list]
        ELSE held[q]]

\* Lines 382 and 399: round r hands its own new array to setNodes; the
\* arrays of the other rounds are not touched.
setNodes(held, r, list) ==
    [held EXCEPT ![r] = [allocated |-> TRUE, items |-> list]]

(***************************************************************************)
(* SpecPoll: the steps of one fetchNodeData activation after another.      *)
(***************************************************************************)
NoPrev == [none |-> TRUE]

\* The outcome of a settled rpcCall: success with its value, or failure.
Outcome(c) ==
    [success |-> c.phase = "fulfilled",
     value |-> IF c.phase = "fulfilled" THEN c.value ELSE UNDEFINED]

InitFleet ==
    /\ nodes = << >>
    /\ arrays = [r \in 1..MaxRounds |-> NoArray]
    /\ loading = TRUE
    /\ isRefreshing = FALSE
    /\ lastUpdate = "null"
    /\ interval = "none"
    /\ rounds = [r \in 1..MaxRounds |-> [state |-> "idle"]]
    /\ started = 0
    /\ searchQuery = ""
    /\ statusFilter = "all"
    /\ view = Render(<< >>, "", "all")

\* fetchNodeData(pollIp) has been called: both rpcCalls are in flight.
InitPoll ==
    /\ pollIp \in {KNOWN_PNODE_IPS[i] : i \in 1..NumNodes}
    /\ calls = [m \in Methods |-> rpcCallStart]
    /\ poll = PENDING
    /\ polls = 1
    /\ prev = NoPrev
    /\ InitFleet

\* fetch() resolves with a response before the timer fired.
FetchResponds(m) ==
    /\ calls[m].phase = "fetch"
    /\ \E ok \in BOOLEAN :
          calls' = [calls EXCEPT ![m] = rpcCallResponse(calls[m], ok)]
    /\ UNCHANGED <<poll, pollIp, polls, prev>>
    /\ UNCHANGED fleetVars
    /\ UNCHANGED viewVars

\* fetch() rejects by itself (connection refused, DNS, CORS).
FetchFails(m) ==
    /\ calls[m].phase = "fetch"
    /\ calls' = [calls EXCEPT ![m] = rpcCallThrow(calls[m], "TypeError")]
    /\ UNCHANGED <<poll, pollIp, polls, prev>>
    /\ UNCHANGED fleetVars
    /\ UNCHANGED viewVars

\* REQUEST_TIMEOUT ms after the call started.
DeadlineElapses(m) ==
    /\ ~Settled(calls[m])
    /\ ~calls[m].elapsed
    /\ calls' = [calls EXCEPT ![m] = rpcCallTimeout(calls[m])]
    /\ UNCHANGED <<poll, pollIp, polls, prev>>
    /\ UNCHANGED fleetVars
    /\ UNCHANGED viewVars

\* response.json() settles: the body is complete (or is not JSON).
BodyArrives(m) ==
    /\ calls[m].phase = "body"
    /\ \E body \in (IF calls[m].ok THEN OkBodies(m) ELSE ErrBodies) :
          calls' = [calls EXCEPT
                       ![m] = rpcCallUnwrap(rpcCallRead(calls[m], body), body)]
    /\ UNCHANGED <<poll, pollIp, polls, prev>>
    /\ UNCHANGED fleetVars
    /\ UNCHANGED viewVars

\* Both rpcCall promises have settled: the await of line 131 resumes.
PollSettles ==
    /\ poll = PENDING
    /\ \A m \in Methods : Settled(calls[m])
    /\ poll' = fetchNodeData(pollIp, calls["getStats"], calls["getPods"])
    /\ UNCHANGED <<calls, pollIp, polls, prev>>
    /\ UNCHANGED fleetVars
    /\ UNCHANGED viewVars

\* The next round calls fetchNodeData for the same address again.
PollAgain ==
    /\ poll # PENDING
    /\ polls < MaxPolls
    /\ prev' = [stats |-> Outcome(calls["getStats"]),
                pods |-> Outcome(calls["getPods"]),
                status |-> poll.status,
                nodeStatus |-> IF poll.status = "fulfilled"
                               THEN poll.value.status ELSE "none"]
    /\ calls' = [m \in Methods |-> rpcCallStart]
    /\ poll' = PENDING
    /\ polls' = polls + 1
    /\ UNCHANGED pollIp
    /\ UNCHANGED fleetVars
    /\ UNCHANGED viewVars

NextPoll ==
    \/ \E m \in Methods : FetchResponds(m)
    \/ \E m \in Methods : FetchFails(m)
    \/ \E m \in Methods : DeadlineElapses(m)
    \/ \E m \in Methods : BodyArrives(m)
    \/ PollSettles
    \/ PollAgain

SpecPoll == InitPoll /\ [][NextPoll]_vars

(***************************************************************************)
(* XandeumDashboard: fetchData (lines 373-421), the effect (lines 423-427) *)
(* and the refresh button (lines 495-498).                                 *)
(*                                                                         *)
(* A round is one activation of fetchData.  rounds[r] is                   *)
(*   [state |-> "idle"]          not started                               *)
(*   state "inflight"            suspended at the await of line 380        *)
(*   state "done"                ran to the end of the finally clause      *)
(* with fetchPromises the array of line 377: PENDING, or the promise       *)
(* fetchNodeData settled to.  outOfOrder records that some poller settled   *)
(* while the poller of an earlier address was still pending (the program   *)
(* keeps no such record; it is there to tell completion orders apart).     *)
(***************************************************************************)
RoundIds == 1..MaxRounds
Indexes  == 1..NumNodes

\* The outcomes of the two rpcCalls of a poller seen from a round: both time
\* out, or both answer.
TimedOut == rpcCallTimeout(rpcCallStart)

Answered(method, result) ==
    LET body == [kind |-> "json", error |-> UNDEFINED, result |-> result]
    IN  rpcCallUnwrap(rpcCallRead(rpcCallResponse(rpcCallStart, TRUE), body),
                      body)

PollerOutcomes ==
    { <<TimedOut, TimedOut>>,
      <<Answered("getStats", [cpu_percent |-> CPU_DEGRADED,
                              memory_percent |-> MEMORY_DEGRADED,
                              storage_used |-> 128]),
        Answered("getPods", [total_count |-> 1,
                             pods |-> << [pubkey |-> "abc123"] >>])>> }

\* Line 377: one poller per configured address, in configured order.
fetchPromises == [index \in Indexes |-> PENDING]

\* nodeResults stamping the entry of a rejected poller with the time.
nodeResults_Stamped(results) ==
    [index \in DOMAIN results |->
        IF results[index].status = "fulfilled"
        THEN results[index].value
        ELSE [OfflineSnapshot(KNOWN_PNODE_IPS[index], "unknown",
                              "Connection failed (CORS)")
                 EXCEPT !.lastSeen = "now"]]

\* Lines 382-397.
nodeResults(results) ==
    [index \in DOMAIN results |->
        IF results[index].status = "fulfilled"
        THEN results[index].value
        ELSE OfflineSnapshot(KNOWN_PNODE_IPS[index], "unknown",
                             "Connection failed (CORS)")]

\* Lines 404-416: the list of the catch clause.
allOffline ==
    [index \in Indexes |->
        OfflineSnapshot(KNOWN_PNODE_IPS[index], "unknown", "Connection failed")]

\* awaitResults with Promise.all: one rejected poller rejects the await.
awaitResults_PromiseAll(round) ==
    IF \E index \in Indexes : round.fetchPromises[index].status = "rejected"
    THEN [status |-> "rejected", reason |-> "poller failed"]
    ELSE PromiseAllSettled(round.fetchPromises)

\* Line 380: what the await yields once every poller has settled.
awaitResults(round) == PromiseAllSettled(round.fetchPromises)

\* fetchDataNodes listing the nodes that returned metrics first.
fetchDataNodes_SortedByStats(round) ==
    LET list == nodeResults(awaitResults(round).value)
    IN  SelectSeq(list, LAMBDA n : n.stats # NULL)
            \o SelectSeq(list, LAMBDA n : n.stats = NULL)

\* fetchDataNodes leaving out the nodes that returned no metrics.
fetchDataNodes_DropFailed(round) ==
    SelectSeq(nodeResults(awaitResults(round).value), LAMBDA n : n.stats # NULL)

\* fetchDataNodes giving up on the whole round when one node returned no
\* metrics.
fetchDataNodes_AbortOnTimeout(round) ==
    LET list == nodeResults(awaitResults(round).value)
    IN  IF \E index \in DOMAIN list : list[index].stats = NULL
        THEN allOffline
        ELSE list

\* Lines 380-416: the list handed to setNodes once the await resumes.
fetchDataNodes(round) ==
    LET awaited == awaitResults(round)
    IN  IF awaited.status = "rejected" THEN allOffline
        ELSE nodeResults(awaited.value)

AllSettled(round) ==
    \A index \in Indexes : round.fetchPromises[index] # PENDING

\* Lines 373-380: fetchData runs up to its await.
fetchDataStart ==
    /\ started < MaxRounds
    /\ started' = started + 1
    /\ isRefreshing' = TRUE
    /\ rounds' = [rounds EXCEPT ![started + 1] =
                    [state |-> "inflight", fetchPromises |-> fetchPromises,
                     outOfOrder |-> FALSE]]
    /\ UNCHANGED <<nodes, arrays, loading, lastUpdate>>

\* Lines 423-425: the effect runs after the first render.
Mount ==
    /\ interval = "none"
    /\ fetchDataStart
    /\ interval' = "active"
    /\ UNCHANGED pollVars
    /\ UNCHANGED viewVars

\* TimerTick of an interval that clearInterval does not stop.
TimerTick_AfterCleanup ==
    /\ interval \in {"active", "cleared"}
    /\ fetchDataStart
    /\ UNCHANGED interval
    /\ UNCHANGED pollVars
    /\ UNCHANGED viewVars

\* Line 425: the interval timer fires, every REFRESH_INTERVAL ms.
TimerTick ==
    /\ interval = "active"
    /\ fetchDataStart
    /\ UNCHANGED interval
    /\ UNCHANGED pollVars
    /\ UNCHANGED viewVars

\* Lines 495-497: a click on the refresh button, disabled while isRefreshing.
ManualRefresh ==
    /\ interval = "active"
    /\ ~isRefreshing
    /\ fetchDataStart
    /\ UNCHANGED interval
    /\ UNCHANGED pollVars
    /\ UNCHANGED viewVars

\* Line 426: the cleanup of the effect.
Unmount ==
    /\ interval = "active"
    /\ interval' = "cleared"
    /\ UNCHANGED <<nodes, arrays, loading, isRefreshing, lastUpdate,
                   rounds, started>>
    /\ UNCHANGED pollVars
    /\ UNCHANGED viewVars

\* The poller of one address settles (line 378), whatever the others do.
PollerSettles(r, index) ==
    /\ rounds[r].state = "inflight"
    /\ rounds[r].fetchPromises[index] = PENDING
    /\ \E outcome \in PollerOutcomes :
          rounds' = [rounds EXCEPT
                        ![r].fetchPromises[index] =
                            fetchNodeData(KNOWN_PNODE_IPS[index], outcome[1], outcome[2]),
                        ![r].outOfOrder =
                            @ \/ \E earlier \in 1..(index - 1) :
                                    rounds[r].fetchPromises[earlier] = PENDING]
    /\ UNCHANGED <<nodes, arrays, loading, isRefreshing, lastUpdate,
                   interval, started>>
    /\ UNCHANGED pollVars
    /\ UNCHANGED viewVars

\* Lines 380-420: every poller of the round has settled; the await resumes
\* and fetchData runs to its end.
FanIn(r) ==
    /\ rounds[r].state = "inflight"
    /\ AllSettled(rounds[r])
    /\ nodes' = fetchDataNodes(rounds[r])
    /\ arrays' = setNodes(arrays, r, nodes')
    /\ lastUpdate' = "now"
    /\ loading' = FALSE
    /\ isRefreshing' = FALSE
    /\ rounds' = [rounds EXCEPT ![r].state = "done"]
    /\ view' = Render(nodes', searchQuery, statusFilter)
    /\ UNCHANGED <<interval, started, searchQuery, statusFilter>>
    /\ UNCHANGED pollVars

\* The poll variables are not used by Spec.
Init ==
    /\ InitFleet
    /\ pollIp = KNOWN_PNODE_IPS[1]
    /\ calls = [m \in Methods |-> rpcCallStart]
    /\ poll = PENDING
    /\ polls = 0
    /\ prev = NoPrev

Next ==
    \/ Mount
    \/ TimerTick
    \/ ManualRefresh
    \/ Unmount
    \/ \E r \in RoundIds, index \in Indexes : PollerSettles(r, index)
    \/ \E r \in RoundIds : FanIn(r)

Spec == Init /\ [][Next]_vars

(***************************************************************************)
(* SpecFault: the round started at mount when a poller task may fault.    *)
(* fetchNodeData as written never rejects; PollerFaults stands for a       *)
(* defect in it, so that lines 383-396 of fetchData have something to      *)
(* guard against.                                                          *)
(***************************************************************************)
FaultReasons == {"TypeError: Cannot read properties of undefined",
                 "RangeError: Maximum call stack size exceeded"}

\* The promise of one poller rejects instead of fulfilling.
PollerFaults(r, index) ==
    /\ rounds[r].state = "inflight"
    /\ rounds[r].fetchPromises[index] = PENDING
    /\ \E reason \in FaultReasons :
          rounds' = [rounds EXCEPT
                        ![r].fetchPromises[index] =
                            [status |-> "rejected", reason |-> reason],
                        ![r].outOfOrder =
                            @ \/ \E earlier \in 1..(index - 1) :
                                    rounds[r].fetchPromises[earlier] = PENDING]
    /\ UNCHANGED <<nodes, arrays, loading, isRefreshing, lastUpdate,
                   interval, started>>
    /\ UNCHANGED pollVars
    /\ UNCHANGED viewVars

NextFault ==
    \/ Mount
    \/ Unmount
    \/ \E r \in RoundIds, index \in Indexes : PollerSettles(r, index)
    \/ \E r \in RoundIds, index \in Indexes : PollerFaults(r, index)
    \/ \E r \in RoundIds : FanIn(r)

SpecFault == Init /\ [][NextFault]_vars

(***************************************************************************)
(* SpecLuxe: XandeumLuxeDashboard (src/unnamed/part_000), the second       *)
(* dashboard of the repository.  Its fetchData starts one getStats request *)
(* per address, waits 800 ms and publishes generateMockNodes().            *)
(***************************************************************************)
\* part_000 line 45 builds 12 entries; the model builds MockLen of them.
MockLen == 2

\* part_000 line 48: what Math.random() decides, one draw per entry.  The
\* other random fields (pubkey suffix, stats) are held at one value each.
MockStatuses == {"online", "degraded"}

\* part_000 lines 46-59: the entry generateMockNodes builds for index i.
MockNode(i, status) ==
    [id         |-> "mock-" \o ToString(i),
     ip         |-> "192.168.1." \o ToString(100 + i),
     status     |-> status,
     stats      |-> [cpu_percent |-> 12, memory_percent |-> 24,
                     storage_used |-> 500],
     version    |-> "v0.9.2-rc",
     gossipPort |-> 8001,
     pubkey     |-> "xnd_mock_" \o ToString(i),
     lastSeen   |-> "now",
     error      |-> "undefined"]

\* part_000 lines 44-61: every list generateMockNodes can return.
generateMockNodes ==
    { [k \in 1..MockLen |-> MockNode(k - 1, draw[k])] :
        draw \in [1..MockLen -> MockStatuses] }

\* part_000 lines 213-239: setIsRefreshing(true) and one request per address.
LuxeFetchDataStart ==
    /\ started < MaxRounds
    /\ started' = started + 1
    /\ rounds' = [rounds EXCEPT ![started + 1] =
                     [state |-> "inflight", fetchPromises |-> fetchPromises,
                      outOfOrder |-> FALSE]]
    /\ isRefreshing' = TRUE

\* part_000 lines 257-259: the effect runs fetchData and arms the interval.
LuxeMount ==
    /\ interval = "none"
    /\ LuxeFetchDataStart
    /\ interval' = "active"
    /\ UNCHANGED <<nodes, arrays, loading, lastUpdate>>
    /\ UNCHANGED pollVars
    /\ UNCHANGED viewVars

\* part_000 line 259: setInterval(fetchData, REFRESH_INTERVAL) fires.
LuxeTimerTick ==
    /\ interval = "active"
    /\ LuxeFetchDataStart
    /\ UNCHANGED <<nodes, arrays, loading, lastUpdate, interval>>
    /\ UNCHANGED pollVars
    /\ UNCHANGED viewVars

\* part_000 line 260: clearInterval on unmount.
LuxeUnmount ==
    /\ interval = "active"
    /\ interval' = "cleared"
    /\ UNCHANGED <<nodes, arrays, loading, isRefreshing, lastUpdate,
                   rounds, started>>
    /\ UNCHANGED pollVars
    /\ UNCHANGED viewVars

\* part_000 lines 222-238: a request ends (answer, bad status, failure or
\* abort after REQUEST_TIMEOUT); every path returns null.
LuxeRequestSettles(r, index) ==
    /\ rounds[r].state \in {"inflight", "done"}
    /\ rounds[r].fetchPromises[index] = PENDING
    /\ rounds' = [rounds EXCEPT ![r].fetchPromises[index] =
                     [status |-> "fulfilled", value |-> NULL]]
    /\ UNCHANGED <<nodes, arrays, loading, isRefreshing, lastUpdate,
                   interval, started>>
    /\ UNCHANGED pollVars
    /\ UNCHANGED viewVars

\* part_000 lines 242-253: the 800 ms delay ends; the requests are not
\* awaited.  setNodes(generateMockNodes()), then the finally block.
LuxeDelayElapses(r) ==
    /\ rounds[r].state = "inflight"
    /\ nodes' \in generateMockNodes
    /\ loading' = FALSE
    /\ isRefreshing' = FALSE
    /\ rounds' = [rounds EXCEPT ![r].state = "done"]
    /\ UNCHANGED <<arrays, lastUpdate, interval, started>>
    /\ UNCHANGED pollVars
    /\ UNCHANGED viewVars

NextLuxe ==
    \/ LuxeMount
    \/ LuxeTimerTick
    \/ LuxeUnmount
    \/ \E r \in RoundIds, index \in Indexes : LuxeRequestSettles(r, index)
    \/ \E r \in RoundIds : LuxeDelayElapses(r)

SpecLuxe == Init /\ [][NextLuxe]_vars

(***************************************************************************)
(* SpecView: the render of XandeumDashboard over every node list up to     *)
(* MaxView entries, under every search text and status filter the user     *)
(* can set.  The initial states are dashboards that have published a list  *)
(* and have no round in flight.                                            *)
(***************************************************************************)
MaxView == 3

\* The snapshots an entry of the list can be: the offline entry of lines
\* 386-395, and what fetchNodeData returns for a node with ordinary load and
\* a pubkey, for a node over the CPU threshold whose getPods failed, and for
\* a node whose getStats failed.
ViewSnapshots(ip) ==
    { OfflineSnapshot(ip, "unknown", "Connection failed (CORS)"),
      NodeSnapshot(ip,
          Settlement(Answered("getStats",
              [cpu_percent |-> 20, memory_percent |-> 30, storage_used |-> 128])),
          Settlement(Answered("getPods",
              [total_count |-> 1, pods |-> << [pubkey |-> "abc123"] >>]))),
      NodeSnapshot(ip,
          Settlement(Answered("getStats",
              [cpu_percent |-> 95, memory_percent |-> 40, storage_used |-> 512])),
          Settlement(TimedOut)),
      NodeSnapshot(ip,
          Settlement(TimedOut),
          Settlement(Answered("getPods",
              [total_count |-> 1, pods |-> << [pubkey |-> "AbC9"] >>]))) }

ViewLists ==
    UNION { { list \in [1..n -> UNION { ViewSnapshots(AllKnownIps[i]) : i \in 1..n }] :
                \A i \in 1..n : list[i].ip = AllKnownIps[i] } : n \in 0..MaxView }

\* What the user can type into the search box, and the options of the select.
SearchTexts   == {"", "abc", "ABC", "17"}
StatusFilters == {"all", "online", "offline", "degraded"}

InitView ==
    /\ nodes \in ViewLists
    /\ arrays = [r \in 1..MaxRounds |-> NoArray]
    /\ loading = FALSE
    /\ isRefreshing = FALSE
    /\ lastUpdate = "now"
    /\ interval = "active"
    /\ rounds = [r \in 1..MaxRounds |-> [state |-> "idle"]]
    /\ started = 0
    /\ searchQuery = ""
    /\ statusFilter = "all"
    /\ view = Render(nodes, "", "all")
    /\ pollIp = KNOWN_PNODE_IPS[1]
    /\ calls = [m \in Methods |-> rpcCallStart]
    /\ poll = PENDING
    /\ polls = 0
    /\ prev = NoPrev

\* Line 601: onChange of the search box, and the render that follows.
SetSearchQuery(query) ==
    /\ query # searchQuery
    /\ searchQuery' = query
    /\ view' = Render(nodes, query, statusFilter)
    /\ UNCHANGED statusFilter
    /\ UNCHANGED fleetVars
    /\ UNCHANGED pollVars

\* Line 610: onChange of the status select, and the render that follows.
SetStatusFilter(status) ==
    /\ status # statusFilter
    /\ statusFilter' = status
    /\ view' = Render(nodes, searchQuery, status)
    /\ UNCHANGED searchQuery
    /\ UNCHANGED fleetVars
    /\ UNCHANGED pollVars

NextView ==
    \/ \E query \in SearchTexts : SetSearchQuery(query)
    \/ \E status \in StatusFilters : SetStatusFilter(status)

SpecView == InitView /\ [][NextView]_vars

(***************************************************************************)
(* Claims about rpcCall and fetchNodeData, checked under SpecPoll.         *)
(***************************************************************************)
PollDone == poll # PENDING

BothCallsFailed ==
    calls["getStats"].phase = "rejected" /\ calls["getPods"].phase = "rejected"

\* C1: when both the getStats call and the getPods call of a poll fail, the
\* snapshot returned by fetchNodeData has status 'offline', stats null,
\* pubkey null and an error message set (the getStats failure).
C1_BothFailOffline ==
    (PollDone /\ BothCallsFailed) =>
        /\ poll.status = "fulfilled"
        /\ poll.value.status = "offline"
        /\ poll.value.stats = NULL
        /\ poll.value.pubkey = "null"
        /\ poll.value.error = calls["getStats"].reason

\* C2: a snapshot with stats null never has status 'online'; when getStats
\* fails and getPods succeeds the status is 'offline' and the pubkey of the
\* membership answer is still attached.
C2_StatsFailNotOnline ==
    PollDone =>
        /\ poll.status = "fulfilled"
        /\ (poll.value.stats = NULL => poll.value.status # "online")
        /\ (calls["getStats"].phase = "rejected" /\ calls["getPods"].phase = "fulfilled")
              => /\ poll.value.status = "offline"
                 /\ \/ calls["getPods"].value = NULL
                    \/ Len(calls["getPods"].value.pods) = 0
                    \/ poll.value.pubkey = calls["getPods"].value.pods[1].pubkey

\* The thresholds of the claim, stated on the value the getStats call returned.
Breach(c) ==
    /\ c.phase = "fulfilled"
    /\ c.value # NULL
    /\ (c.value.cpu_percent > 90 \/ c.value.memory_percent > 95)

\* C3: the snapshot is 'degraded' iff getStats succeeded and cpu_percent > 90
\* or memory_percent > 95 (strictly); when getStats succeeded and neither
\* threshold is breached the status is 'online'.
C3_DegradedIffBreach ==
    PollDone =>
        /\ poll.status = "fulfilled"
        /\ (poll.value.status = "degraded") <=> Breach(calls["getStats"])
        /\ (calls["getStats"].phase = "fulfilled" /\ ~Breach(calls["getStats"]))
              => poll.value.status = "online"

\* cpu exactly 90 does not degrade, memory 96 does.
C3_Witness ==
    /\ PollDone
    /\ poll.value.status = "degraded"
    /\ poll.value.stats.cpu_percent = 90
    /\ poll.value.stats.memory_percent = 96

SameOutcomesAsPrev ==
    /\ prev # NoPrev
    /\ prev.stats = Outcome(calls["getStats"])
    /\ prev.pods = Outcome(calls["getPods"])

\* C4: fetchNodeData is total and deterministic: whatever the two calls'
\* outcomes, its promise fulfils (never rejects) with one snapshot, and two
\* polls with the same pair of outcomes give the same status.
C4_TotalDeterministic ==
    PollDone =>
        /\ poll.status = "fulfilled"
        /\ poll.value.status \in {"online", "offline", "degraded"}
        /\ SameOutcomesAsPrev =>
              /\ prev.status = poll.status
              /\ prev.nodeStatus = poll.value.status

\* Two polls with the same outcomes (getStats failed, getPods succeeded) whose
\* failures differ in kind and in timing.
C4_Witness ==
    /\ PollDone
    /\ SameOutcomesAsPrev
    /\ ~prev.stats.success
    /\ prev.pods.success
    /\ calls["getStats"].reason = "AbortError"
    /\ calls["getPods"].elapsed

\* C9: each rpcCall settles no later than its deadline, however the remote
\* node behaves.
C9_SettlesByDeadline ==
    \A m \in Methods : calls[m].elapsed => Settled(calls[m])

\* C10: data appears in a snapshot only if the call that delivered it
\* finished before its deadline elapsed.
C10_NoLateData ==
    PollDone =>
        /\ poll.value.stats # NULL => ~calls["getStats"].elapsed
        /\ poll.value.pubkey # "null" => ~calls["getPods"].elapsed

\* C13: rpcCall unwraps a response as follows: a non-OK HTTP status fails;
\* a response carrying an error field fails with the remote message, even
\* if a result is also present; a response with neither error nor result
\* fails with 'No result in response'; otherwise the call returns exactly
\* the result field.
C13_Unwrap ==
    \A m \in Methods :
        LET c == calls[m] IN
        (Settled(c) /\ c.data # UNDEFINED) =>
            IF ~c.ok
            THEN c.phase = "rejected"
            ELSE IF c.data.kind # "json"
            THEN c.phase = "rejected"
            ELSE IF c.data.error # UNDEFINED
            THEN c.phase = "rejected" /\ c.reason = c.data.error.message
            ELSE IF c.data.result = UNDEFINED
            THEN c.phase = "rejected" /\ c.reason = "No result in response"
            ELSE c.phase = "fulfilled" /\ c.value = c.data.result

\* One call read an envelope with both an error and a result and failed with
\* the remote message, while the other returned the result it read.
C13_Witness ==
    \E m, n \in Methods :
        /\ calls[m].phase = "rejected"
        /\ calls[m].ok
        /\ calls[m].data # UNDEFINED
        /\ calls[m].data.kind = "json"
        /\ calls[m].data.error # UNDEFINED
        /\ calls[m].data.result \notin {UNDEFINED, NULL}
        /\ calls[m].reason = "remote error"
        /\ calls[n].phase = "fulfilled"
        /\ calls[n].value = calls[n].data.result

\* C20: the lastSeen timestamp of a snapshot is present only when at least
\* one of the two calls of that poll succeeded, and is null when both failed.
C20_LastSeenOnlyWithData ==
    PollDone =>
        /\ poll.status = "fulfilled"
        /\ poll.value.lastSeen # "null"
              <=> \E m \in Methods : calls[m].phase = "fulfilled"

\* The snapshot of a settled poll carries the stats getStats returned iff
\* getStats succeeded, and the pubkey of the first pod getPods returned iff
\* getPods succeeded, whatever the other call did.
DataFromOwnCall ==
    PollDone =>
        /\ poll.status = "fulfilled"
        /\ poll.value.stats =
               (IF calls["getStats"].phase = "fulfilled"
                THEN calls["getStats"].value ELSE NULL)
        /\ poll.value.stats # NULL =>
               calls["getStats"].phase = "fulfilled"
        /\ poll.value.pubkey =
               (IF calls["getPods"].phase = "fulfilled"
                THEN FirstPubkey(calls["getPods"].value) ELSE "null")
        /\ poll.value.pubkey # "null" =>
               calls["getPods"].phase = "fulfilled"

\* C21: within one node poll the getStats and getPods calls are independent:
\* a step of one call (answer, failure, timeout) leaves the other call as it
\* was, and the snapshot has the stats iff getStats succeeded and the pubkey
\* of getPods iff getPods succeeded, in all four outcome combinations.
C21_CallsIndependent ==
    /\ [](DataFromOwnCall)
    /\ [][polls' = polls =>
            \A m \in Methods :
                calls'[m] # calls[m] =>
                    \A n \in Methods \ {m} : calls'[n] = calls[n]]_vars

\* getPods timed out and getStats answered: the snapshot has the stats and
\* no pubkey.
C21_Witness ==
    /\ PollDone
    /\ calls["getPods"].phase = "rejected"
    /\ calls["getPods"].timer = "fired"
    /\ calls["getStats"].phase = "fulfilled"
    /\ calls["getStats"].value # NULL
    /\ poll.value.stats = calls["getStats"].value
    /\ poll.value.pubkey = "null"

\* Each call of the current poll has issued one request, and a failed call
\* shows in the snapshot of this poll.
OneRequestPerCall ==
    /\ \A m \in Methods : calls[m].sent = 1
    /\ PollDone =>
          /\ calls["getStats"].phase = "rejected" => poll.value.stats = NULL
          /\ calls["getPods"].phase = "rejected" => poll.value.pubkey = "null"

\* C23: no internal retries: in every round the address receives exactly one
\* getStats request and exactly one getPods request, whatever the calls'
\* outcomes; a failed call is reflected in that round's snapshot and is only
\* attempted again by the next round's poll.
C23_NoInternalRetry ==
    /\ [](OneRequestPerCall)
    /\ [][\A m \in Methods :
            (calls[m].phase = "rejected" /\ calls'[m] # calls[m]) =>
                /\ PollDone
                /\ polls' = polls + 1
                /\ calls'[m] = rpcCallStart]_vars

\* getStats failed in the previous poll, was issued once more by this poll
\* and answered.
C23_Witness ==
    /\ polls = 2
    /\ prev # NoPrev
    /\ ~prev.stats.success
    /\ PollDone
    /\ calls["getStats"].sent = 1
    /\ calls["getStats"].phase = "fulfilled"
    /\ poll.value.stats # NULL

\* C26: on every exit path of rpcCall (success, HTTP error, remote error,
\* missing result, transport fault, abort) its timeout timer has been
\* cancelled or has already fired: no abort timer of a settled call remains
\* pending.
C26_NoTimerLeftArmed ==
    \A m \in Methods :
        Settled(calls[m]) => calls[m].timer \in {"cleared", "fired"}

\* One call was aborted by its timer, the other returned a result with its
\* timer cancelled.
C26_Witness ==
    \E m, n \in Methods :
        /\ calls[m].phase = "rejected"
        /\ calls[m].reason = "AbortError"
        /\ calls[m].timer = "fired"
        /\ calls[n].phase = "fulfilled"
        /\ calls[n].timer = "cleared"

(***************************************************************************)
(* Claims about the rounds of the dashboard, checked under Spec.           *)
(***************************************************************************)
\* Line 516: the node list and its figures are rendered once loading is false.
Published == ~loading

InFlight == {r \in RoundIds : rounds[r].state = "inflight"}
Done     == {r \in RoundIds : rounds[r].state = "done"}

\* C5: whatever the order in which the pollers of a round complete, the
\* published list has at every index i the snapshot of the i-th configured
\* address.
C5_ConfiguredOrder ==
    Published =>
        \A i \in Indexes :
            /\ i \in DOMAIN nodes
            /\ nodes[i].id = KNOWN_PNODE_IPS[i]
            /\ nodes[i].ip = KNOWN_PNODE_IPS[i]

\* The only round so far completed out of order and has published.
C5_Witness ==
    /\ Published
    /\ started = 1
    /\ rounds[1].state = "done"
    /\ rounds[1].outOfOrder
    /\ nodes[1].id = KNOWN_PNODE_IPS[1]
    /\ nodes[NumNodes].id = KNOWN_PNODE_IPS[NumNodes]

\* Every entry of the list is the snapshot one and the same finished round
\* got from the poller of that address.
FromOneRound ==
    \E r \in Done :
        \A i \in Indexes :
            /\ i \in DOMAIN nodes
            /\ rounds[r].fetchPromises[i].status = "fulfilled"
            /\ nodes[i] = rounds[r].fetchPromises[i].value

\* C6 as claimed: in every reachable state the node list has exactly one
\* entry per configured address, all produced by the same round.
C6_AlwaysComplete ==
    Len(nodes) = NumNodes /\ FromOneRound

\* C6, amended: the list is empty until the first round has published; from
\* then on it has exactly one entry per configured address, all produced by
\* the same round.
C6_RoundAtomicity ==
    /\ loading => nodes = << >>
    /\ Published => (Len(nodes) = NumNodes /\ FromOneRound)

\* A list is published while a later round holds a partial result that
\* differs from it.
C6_Witness ==
    /\ Published
    /\ \E r \in InFlight : \E i, j \in Indexes :
          /\ rounds[r].fetchPromises[i] # PENDING
          /\ rounds[r].fetchPromises[i].value # nodes[i]
          /\ rounds[r].fetchPromises[j] = PENDING

\* C7: at most one polling round is in flight at a time.
C7_SingleFlight ==
    Cardinality(InFlight) <= 1

\* C8: the published list comes from the most recently started round that
\* has completed.
C8_LatestRoundWins ==
    Published =>
        LET latest == CHOOSE r \in Done : \A q \in Done : q <= r
        IN  \A i \in Indexes :
                /\ i \in DOMAIN nodes
                /\ nodes[i] = rounds[latest].fetchPromises[i].value

\* The rounds that have been started.
Started == { r \in RoundIds : rounds[r].state # "idle" }

\* Every settled poller promise is what fetchNodeData gives for its own
\* address and some outcome of its own two calls; the published entry of
\* address i is the value of poller i of the round that published.
OwnOutcomeOnly ==
    /\ \A r \in Started, i \in Indexes :
          \/ rounds[r].fetchPromises[i] = PENDING
          \/ \E outcome \in PollerOutcomes :
                rounds[r].fetchPromises[i] =
                    fetchNodeData(KNOWN_PNODE_IPS[i], outcome[1], outcome[2])
    /\ Published =>
          \E r \in Done :
              /\ Len(nodes) = NumNodes
              /\ \A i \in Indexes : nodes[i] = rounds[r].fetchPromises[i].value

\* C22: no cross-node interference: the snapshot published for address i is
\* determined only by the outcomes of address i's own two calls; a timeout,
\* abort or failure at another address never changes it or cancels its calls:
\* a step settles at most one poller promise, one that was pending, and
\* leaves every other poller promise of every round as it was.
C22_NoCrossNodeInterference ==
    /\ [](OwnOutcomeOnly)
    /\ [][LET changed == { p \in Started \X Indexes :
                              rounds'[p[1]].fetchPromises[p[2]]
                                  # rounds[p[1]].fetchPromises[p[2]] }
          IN  /\ Cardinality(changed) <= 1
              /\ \A p \in changed :
                    rounds[p[1]].fetchPromises[p[2]] = PENDING]_vars

\* A round published in which a later address timed out first and an earlier
\* address answered afterwards with its data intact.
C22_Witness ==
    /\ Published
    /\ \E r \in Done :
          /\ rounds[r].outOfOrder
          /\ \A i \in Indexes : nodes[i] = rounds[r].fetchPromises[i].value
          /\ \E i, j \in Indexes :
                /\ i < j
                /\ nodes[j].stats = NULL
                /\ nodes[i].stats # NULL
                /\ nodes[i].pubkey = "abc123"

\* The array of every round that has published holds the list that round
\* built, and the list on display is the array of one of them.
ArraysAsPublished ==
    /\ \A r \in RoundIds :
          IF r \in Done
          THEN arrays[r] = [allocated |-> TRUE, items |-> fetchDataNodes(rounds[r])]
          ELSE arrays[r] = NoArray
    /\ Published => \E r \in Done : nodes = arrays[r].items

\* C24: copy-on-produce: publishing a new round's node list never modifies
\* the previously published list or any of its node snapshots; a consumer
\* still holding the previous list sees it unchanged.
C24_CopyOnProduce ==
    /\ [](ArraysAsPublished)
    /\ [][\A r \in RoundIds :
            arrays[r].allocated => arrays'[r] = arrays[r]]_vars

\* Two rounds have published different lists; the array of the one that
\* published first still holds its own list.
C24_Witness ==
    \E r, q \in Done :
        /\ nodes = arrays[q].items
        /\ arrays[r].allocated
        /\ arrays[r].items # nodes
        /\ arrays[r].items = fetchDataNodes(rounds[r])

\* Once mounted, a round has been started; while the interval is set, a tick
\* starts another round whatever the rounds in flight do (up to MaxRounds).
MountAndTicksStartRounds ==
    /\ REFRESH_INTERVAL = 30 * 1000
    /\ interval = "none" <=> started = 0
    /\ (interval = "active" /\ started < MaxRounds) => ENABLED TimerTick
    /\ interval = "cleared" => ~ENABLED TimerTick

\* C25: a polling round is triggered once when the dashboard mounts and
\* again on every tick of the 30-second interval timer; after the effect's
\* cleanup has cleared the interval, no further round is started by the
\* timer.
C25_TimerRounds ==
    /\ [](MountAndTicksStartRounds)
    /\ [][/\ (interval = "none" /\ interval' # "none") => started' = 1
          /\ interval = "cleared" =>
                (started' = started /\ interval' = "cleared")]_vars

\* The interval was cleared after the mount round, with rounds to spare: no
\* tick starts one.
C25_Witness ==
    /\ interval = "cleared"
    /\ started >= 1
    /\ started < MaxRounds
    /\ ~ENABLED TimerTick

\* C27: in every reachable state the refresh-in-progress flag isRefreshing,
\* which disables the manual refresh button, is true whenever any polling
\* round is in flight and false when none is.
C27_RefreshingIffInFlight == isRefreshing <=> InFlight # {}

(***************************************************************************)
(* Claims about a faulting poller, checked under SpecFault.                *)
(***************************************************************************)
\* The list of a finished round, entry by entry: a rejected poller gives an
\* 'offline' entry without stats, pubkey or timestamp for its own address,
\* a fulfilled poller gives exactly the snapshot it returned.
GuardedList(r) ==
    /\ Len(nodes) = NumNodes
    /\ \A i \in Indexes :
          IF rounds[r].fetchPromises[i].status = "rejected"
          THEN /\ nodes[i].id = KNOWN_PNODE_IPS[i]
               /\ nodes[i].ip = KNOWN_PNODE_IPS[i]
               /\ nodes[i].status = "offline"
               /\ nodes[i].stats = NULL
               /\ nodes[i].pubkey = "null"
               /\ nodes[i].lastSeen = "null"
          ELSE nodes[i] = rounds[r].fetchPromises[i].value

\* C11: if the poller of one address rejects, the round still completes and
\* publishes; that address gets an 'offline' snapshot with no stats, pubkey
\* or timestamp, and every other address gets exactly the snapshot its own
\* poller returned.
C11_FaultIsolated ==
    /\ \A r \in InFlight : AllSettled(rounds[r]) => ENABLED FanIn(r)
    /\ Published => \E r \in Done : GuardedList(r)

\* A round with one faulted poller and one poller that answered has published.
C11_Witness ==
    /\ Published
    /\ \E r \in Done :
          /\ GuardedList(r)
          /\ \E i, j \in Indexes :
                /\ rounds[r].fetchPromises[i].status = "rejected"
                /\ rounds[r].fetchPromises[j].status = "fulfilled"
                /\ nodes[j].stats # NULL

\* C28: in every published node list, an entry with status 'offline' has
\* stats null, pubkey null and lastSeen null, an entry with non-null stats
\* has status 'online' or 'degraded', and an entry with an error message
\* has status 'offline'.
C28_ConsistentEntries ==
    \A i \in DOMAIN nodes :
        /\ nodes[i].status = "offline" =>
              /\ nodes[i].stats = NULL
              /\ nodes[i].pubkey = "null"
              /\ nodes[i].lastSeen = "null"
        /\ nodes[i].stats # NULL => nodes[i].status \in {"online", "degraded"}
        /\ nodes[i].error # "undefined" => nodes[i].status = "offline"

\* A published list with an offline entry that carries an error message and
\* an entry that has stats.
C28_Witness ==
    /\ Published
    /\ \E i, j \in DOMAIN nodes :
          /\ nodes[i].status = "offline"
          /\ nodes[i].error # "undefined"
          /\ nodes[i].lastSeen = "null"
          /\ nodes[j].stats # NULL
          /\ nodes[j].status \in {"online", "degraded"}

(***************************************************************************)
(* Claims about what is published, checked under SpecLuxe.                 *)
(***************************************************************************)
\* The stats and pubkey a poller promise of a round delivered; nothing if it
\* is pending, rejected or resolved to null.
Returned(promise) ==
    IF promise.status = "fulfilled" /\ promise.value # NULL
    THEN [stats |-> promise.value.stats, pubkey |-> promise.value.pubkey]
    ELSE [stats |-> NULL, pubkey |-> "null"]

\* C12: the published node list never contains fabricated data: every
\* published entry's address is a configured address, and its stats and
\* pubkey are the values that node's calls returned in the round that
\* published it.
C12_NoFabricatedData ==
    Published =>
        \E r \in Done :
            \A i \in DOMAIN nodes :
                /\ \E k \in Indexes : nodes[i].ip = KNOWN_PNODE_IPS[k]
                /\ \A k \in Indexes :
                      nodes[i].ip = KNOWN_PNODE_IPS[k] =>
                          /\ nodes[i].stats =
                                 Returned(rounds[r].fetchPromises[k]).stats
                          /\ nodes[i].pubkey =
                                 Returned(rounds[r].fetchPromises[k]).pubkey

(***************************************************************************)
(* Claims about the fleet figures and the filter, checked under SpecView.  *)
(***************************************************************************)
\* The positions of the node list whose entry has the given status, and the
\* positions whose entry has stats.
WithStatus(status) == { i \in DOMAIN nodes : nodes[i].status = status }
WithStats == { i \in DOMAIN nodes : nodes[i].stats # NULL }

\* The sum of one stats field over a set of positions of the node list.
RECURSIVE SumOver(_, _)
SumOver(field, positions) ==
    IF positions = {} THEN 0
    ELSE LET i == CHOOSE j \in positions : TRUE
         IN  nodes[i].stats[field] + SumOver(field, positions \ {i})

\* C14: aggregation is total and never divides by zero: for the empty node
\* list the node count, online count, offline count, mean CPU, total
\* storage and health percentage are all 0, and mean CPU is 0 whenever no
\* node has stats.
C14_AggregationTotal ==
    /\ view.avgCpu.den # 0
    /\ nodes = << >> =>
          /\ view.totalNodes = 0
          /\ view.onlineNodes = 0
          /\ view.offlineNodes = 0
          /\ view.avgCpu.num = 0
          /\ view.totalStorage = 0
          /\ view.healthPercent = "0"
    /\ WithStats = {} => view.avgCpu.num = 0

\* A non-empty list none of whose nodes has stats has been rendered.
C14_Witness ==
    /\ Len(nodes) = MaxView
    /\ WithStats = {}
    /\ WithStatus("online") # {}
    /\ statusFilter # "all"
    /\ view.avgCpu = [num |-> 0, den |-> 1]

\* C15 as stated: the render yields an online, a degraded and an offline
\* count, each the number of entries with that status, which sum to the
\* node count; the health percentage is online/total x 100 (0 for no nodes).
C15_CountsByStatus ==
    /\ view.onlineNodes = Cardinality(WithStatus("online"))
    /\ view.offlineNodes = Cardinality(WithStatus("offline"))
    /\ "degradedNodes" \in DOMAIN view
    /\ view.degradedNodes = Cardinality(WithStatus("degraded"))
    /\ view.onlineNodes + view.degradedNodes + view.offlineNodes
           = view.totalNodes
    /\ \E h \in 0..100 :
          /\ view.healthPercent = ToString(h)
          /\ 2 * h * view.totalNodes
                 \in (200 * view.onlineNodes - view.totalNodes)
                     ..(200 * view.onlineNodes + view.totalNodes)

\* C15 (amended): the online and offline counts equal the number of entries
\* with that status; no degraded count is computed, the degraded entries are
\* the ones neither count covers; the health percentage is online/total x
\* 100 rounded to the nearest whole number ("0" for no nodes).
C15_CountsAndHealth ==
    /\ view.totalNodes = Len(nodes)
    /\ view.onlineNodes = Cardinality(WithStatus("online"))
    /\ view.offlineNodes = Cardinality(WithStatus("offline"))
    /\ "degradedNodes" \notin DOMAIN view
    /\ view.totalNodes - view.onlineNodes - view.offlineNodes
           = Cardinality(WithStatus("degraded"))
    /\ \E h \in 0..100 :
          /\ view.healthPercent = ToString(h)
          /\ 2 * h * view.totalNodes
                 \in (200 * view.onlineNodes - view.totalNodes)
                     ..(200 * view.onlineNodes + view.totalNodes)

\* One online, one degraded and one offline node give health 33%.
C15_Witness ==
    /\ Cardinality(WithStatus("online")) = 1
    /\ Cardinality(WithStatus("degraded")) = 1
    /\ Cardinality(WithStatus("offline")) = 1
    /\ searchQuery # ""
    /\ view.onlineNodes = 1
    /\ view.offlineNodes = 1
    /\ view.healthPercent = "33"

\* C16: mean CPU is the sum of cpu_percent over exactly the nodes with stats
\* divided by the number of such nodes, and total storage is the sum of
\* storage_used over all nodes, a node without stats contributing 0.
C16_MeanAndTotal ==
    /\ WithStats # {} =>
          view.avgCpu.num * Cardinality(WithStats)
              = SumOver("cpu_percent", WithStats) * view.avgCpu.den
    /\ view.totalStorage = SumOver("storage_used", WithStats)

\* Two nodes with different stats and one without have been rendered.
C16_Witness ==
    /\ Len(nodes) = 3
    /\ Cardinality(WithStats) = 2
    /\ statusFilter # "all"
    /\ view.avgCpu = [num |-> 115, den |-> 2]
    /\ view.totalStorage = 640

\* C17: filtering with empty search text and status filter 'all' returns
\* the node list unchanged in content and order, also when nodes have a
\* null pubkey.
C17_FilterIdentity ==
    (searchQuery = "" /\ statusFilter = "all") => view.filteredNodes = nodes

\* A full list with a node without pubkey passes the empty filter whole.
C17_Witness ==
    /\ searchQuery = ""
    /\ statusFilter = "all"
    /\ Len(nodes) = MaxView
    /\ \E i \in DOMAIN nodes : nodes[i].pubkey = "null"
    /\ \E i \in DOMAIN nodes : nodes[i].pubkey # "null"
    /\ view.filteredNodes = nodes

\* The entries of the filter result, as a set.
Shown == { view.filteredNodes[k] : k \in DOMAIN view.filteredNodes }

\* C18 as stated: with status filter 'all', a node is shown iff its address
\* contains the search text as a case-sensitive substring or its pubkey
\* does; a node without pubkey never matches through the pubkey.
C18_CaseSensitive ==
    statusFilter = "all" =>
        \A i \in DOMAIN nodes :
            nodes[i] \in Shown <=>
                \/ includes(Chars(nodes[i].ip), Chars(searchQuery))
                \/ /\ nodes[i].pubkey # "null"
                   /\ includes(Chars(nodes[i].pubkey), Chars(searchQuery))

\* C18 (amended): with status filter 'all', a node is shown iff its address
\* contains the search text or its pubkey does, both compared after
\* lowercasing; a node without pubkey never matches through the pubkey.
\* Searching "abc" or "ABC" over nodes without pubkey and one node with
\* pubkey "abc123" shows only that node.
C18_CaseInsensitive ==
    statusFilter = "all" =>
        /\ \A i \in DOMAIN nodes :
              nodes[i] \in Shown <=>
                  \/ includes(toLowerCase(Chars(nodes[i].ip)),
                              toLowerCase(Chars(searchQuery)))
                  \/ /\ nodes[i].pubkey # "null"
                     /\ includes(toLowerCase(Chars(nodes[i].pubkey)),
                                 toLowerCase(Chars(searchQuery)))
        /\ searchQuery \in {"abc", "ABC"} =>
              \A i \in DOMAIN nodes :
                  /\ nodes[i].pubkey = "null" => nodes[i] \notin Shown
                  /\ nodes[i].pubkey = "abc123" => nodes[i] \in Shown

\* "ABC" over two nodes without pubkey and a third with pubkey "abc123"
\* shows exactly the third.
C18_Witness ==
    /\ searchQuery = "ABC"
    /\ statusFilter = "all"
    /\ Len(nodes) = 3
    /\ nodes[1].pubkey = "null"
    /\ nodes[2].pubkey = "null"
    /\ nodes[3].pubkey = "abc123"
    /\ view.filteredNodes = << nodes[3] >>

\* The positions of the node list that satisfy both predicates.
Kept ==
    { i \in DOMAIN nodes : /\ matchesSearch(nodes[i], searchQuery)
                           /\ matchesStatus(nodes[i], statusFilter) }

\* The filter result is the entries at the kept positions, in list order.
KeptInOrder ==
    /\ Len(view.filteredNodes) = Cardinality(Kept)
    /\ \A k \in DOMAIN view.filteredNodes :
          view.filteredNodes[k] =
              nodes[CHOOSE i \in Kept : Cardinality({j \in Kept : j <= i}) = k]

\* C19: the filter result is exactly the nodes satisfying both the search
\* predicate and the status predicate, in the same relative order as in the
\* node list, and computing it leaves the node list itself unchanged.
C19_FilterFrame == [](KeptInOrder) /\ [][nodes' = nodes]_vars

\* A render kept some node, dropped one for its status alone and one for the
\* search text alone.
C19_Witness ==
    /\ view.filteredNodes # << >>
    /\ \E i \in DOMAIN nodes : /\ matchesSearch(nodes[i], searchQuery)
                               /\ ~matchesStatus(nodes[i], statusFilter)
    /\ \E i \in DOMAIN nodes : /\ ~matchesSearch(nodes[i], searchQuery)
                               /\ matchesStatus(nodes[i], statusFilter)

=============================================================================
